---- MODULE Spec2Model ----
(***************************************************************************)
(* Verification model of history_viewer's core: the categorizer            *)
(* (models.go), the zsh history parser and the session segmenter           *)
(* (export.go / parser.go).                                                *)
(*                                                                         *)
(* Text is modelled as a sequence of tokens.  A token is either one        *)
(* whitespace character (" ", "\t", "\n"), one shell operator character    *)
(* (";", "&", "|"), one quote character, the path separator "/", or a      *)
(* maximal run of other characters (a word).  The word vocabulary holds    *)
(* no word that starts with "find" or ends with "-name" other than these   *)
(* two words themselves, so that the regular expressions of the source     *)
(* can be evaluated token by token.                                        *)
(*                                                                         *)
(* A directory is a cleaned absolute path: the sequence of its segments    *)
(* (<<>> is "/").  Timestamps and durations are in seconds.                *)
(***************************************************************************)
EXTENDS Integers, Sequences, FiniteSets, TLC

\* ------------------------------------------------------------------ bounds
MaxRules == 2       \* rules per SetCustomCategoryPatterns / NewParser call
MaxCalls == 2       \* categorizer operations per behaviour
MaxLines == 4       \* lines of the history file
MaxEntries == 4     \* records handed to GroupIntoSessions
MaxRun == 6         \* records handed to GroupIntoSessions, single-heuristic runs
MaxBoundaries == 3  \* boundaries in the session index
MaxTargets == 2     \* sessions or commands handed to a merge
MaxWriters == 2     \* goroutines writing to the metadata store

\* --------------------------------------------------------------- variables
VARIABLES
    customCategoryPatterns, \* models.go: package variable (compiled user rules)
    lastPatterns,           \* argument of the most recent SetCustomCategoryPatterns
    setCalls,               \* number of SetCustomCategoryPatterns calls so far
    calls,                  \* number of categorizer operations so far
    catCmd,                 \* argument of the most recent CategorizeCommand
    catResult,              \* its result ("" before the first call)
    lastOp,                 \* the most recent categorizer operation
    file,                   \* ParseHistory: the lines of config.HistoryFile
    HomeDir,                \* config.HomeDir
    pos,                    \* ParseHistory: lines consumed by the scanner
    currentDir,             \* ParseHistory: local currentDir
    id,                     \* ParseHistory: local id
    entries,                \* ParseHistory: result; GroupIntoSessions: input
    origin,                 \* per parsed entry: file line it was built from
    ppc,                    \* ParseHistory: "idle" | "scan" | "done"
    config,                 \* Parser.config (SessionTimeout, SessionHeuristics)
    i,                      \* GroupIntoSessions: loop index (0-based)
    sessions,               \* GroupIntoSessions: local sessions
    currentSession,         \* GroupIntoSessions: local currentSession
    dirSet,                 \* GroupIntoSessions: local dirSet
    consecutiveCategoryChanges,
    lastCategory,
    ignored,                \* breaks that closed no session: the record that
                            \* fired it and the ids currentSession held then
    gpc,                    \* GroupIntoSessions: "idle" | "loop" | "done"
    setCall,                \* SetCustomCategoryPatterns in progress: its position,
                            \* the patterns still to compile, the rules before it
    ranged,                 \* the slice the last CategorizeCommand ranged over
    sessionIndex,           \* SessionIndex and the Prune call on it
    metadata                \* MetadataStore and the calls on it

catVars == <<customCategoryPatterns, lastPatterns, setCalls, calls, catCmd, catResult,
            lastOp>>
parseVars == <<file, HomeDir, pos, currentDir, id, origin, ppc>>
segVars == <<config, i, sessions, currentSession, dirSet,
             consecutiveCategoryChanges, lastCategory, ignored, gpc>>
raceVars == <<setCall, ranged>>
indexVars == <<sessionIndex>>
storeVars == <<metadata>>
vars == <<catVars, parseVars, entries, segVars, raceVars, indexVars, storeVars>>

\* ------------------------------------------------------------ text helpers
WS == {" ", "\t", "\n"}

SeqsUpTo(S, n) == UNION {[1..k -> S] : k \in 0..n}

\* strings.TrimSpace
TrimSpace(s) ==
    LET nonWs == {k \in 1..Len(s) : s[k] \notin WS}
    IN  IF nonWs = {} THEN <<>>
        ELSE LET lo == CHOOSE k \in nonWs : \A m \in nonWs : k <= m
                 hi == CHOOSE k \in nonWs : \A m \in nonWs : k >= m
             IN  SubSeq(s, lo, hi)

RECURSIVE Concat(_)
\* the string made of the tokens of s
Concat(s) == IF s = <<>> THEN "" ELSE Head(s) \o Concat(Tail(s))

HasPrefix(s, p) == Len(s) >= Len(p) /\ SubSeq(s, 1, Len(p)) = p

\* ----------------------------------------------------------- regexp model
\* A compiled pattern "^(a1|a2|...)tail": lits are the plain alternatives,
\* spans the alternatives of the form head.*last, tail is "ws" for \s and
\* "wsOrEnd" for (\s|$).
Lits(words) == [lits |-> {<<w>> : w \in words}, spans |-> {}, tail |-> "ws"]

TailOk(re, s, p) ==
    \/ p + 1 <= Len(s) /\ s[p + 1] \in WS
    \/ re.tail = "wsOrEnd" /\ p = Len(s)

\* regexp.Regexp.MatchString for the patterns above
MatchString(re, s) ==
    \/ \E a \in re.lits : HasPrefix(s, a) /\ TailOk(re, s, Len(a))
    \/ \E sp \in re.spans : \E p \in 2..Len(s) :
          /\ s[1] = sp[1]
          /\ s[p] = sp[2]
          /\ \A k \in 2..(p - 1) : s[k] # "\n"
          /\ TailOk(re, s, p)

\* models.go: categoryPatterns
categoryPatterns ==
    [c \in {"version-control", "build", "file-operations", "navigation",
            "dev-tools", "system-admin", "network", "containers", "database",
            "editor", "search", "package-manager"} |->
     CASE c = "version-control" -> Lits({"git", "hg", "svn", "bzr", "cvs"})
       [] c = "build" ->
            [lits |-> {<<w>> : w \in {"make", "cmake", "cargo", "npm", "yarn",
                        "pnpm", "gradle", "mvn", "ant", "bazel", "gcc", "g++",
                        "clang", "rustc", "javac"}}
                      \cup {<<"go", " ", "build">>, <<"go", " ", "test">>},
             spans |-> {}, tail |-> "ws"]
       [] c = "file-operations" ->
            Lits({"cp", "mv", "rm", "mkdir", "rmdir", "touch", "chmod", "chown",
                  "ln", "cat", "head", "tail", "less", "more", "dd", "rsync", "scp"})
       [] c = "navigation" ->
            Lits({"cd", "ls", "pwd", "tree", "find", "locate", "which", "whereis"})
       [] c = "dev-tools" ->
            Lits({"vim", "nvim", "emacs", "nano", "code", "subl", "idea", "pycharm",
                  "gdb", "lldb", "valgrind", "strace", "ltrace"})
       [] c = "system-admin" ->
            Lits({"sudo", "su", "systemctl", "service", "kill", "killall", "ps",
                  "top", "htop", "free", "df", "du", "mount", "umount", "lsof",
                  "netstat", "ss", "iptables", "ufw", "systemd"})
       [] c = "network" ->
            Lits({"curl", "wget", "ssh", "scp", "rsync", "ping", "traceroute",
                  "nslookup", "dig", "host", "telnet", "nc", "netcat", "ftp", "sftp"})
       [] c = "containers" ->
            Lits({"docker", "podman", "kubectl", "k", "helm", "minikube", "kind",
                  "k3s", "nerdctl", "containerd"})
       [] c = "database" ->
            Lits({"psql", "mysql", "sqlite3", "mongo", "redis-cli", "mongosh",
                  "clickhouse-client"})
       [] c = "editor" ->
            Lits({"vim", "nvim", "emacs", "nano", "vi", "ed", "joe", "pico"})
       [] c = "search" ->
            [lits |-> {<<w>> : w \in {"grep", "egrep", "fgrep", "ag", "rg", "ack",
                                      "locate"}},
             spans |-> {<<"find", "-name">>}, tail |-> "ws"]
       [] c = "package-manager" ->
            Lits({"apt", "apt-get", "yum", "dnf", "pacman", "brew", "pip", "pip3",
                  "npm", "yarn", "cargo", "gem", "composer"})]

CategoryOther == "other"

\* regexp.Compile on the pattern sources of the tests (models_test.go)
regexpCompile(src) ==
    CASE src = "^git\\s" -> [err |-> FALSE, re |-> Lits({"git"})]
      [] src = "^test\\s" -> [err |-> FALSE, re |-> Lits({"test"})]
      [] src = "^history_viewer(\\s|$)" ->
            [err |-> FALSE,
             re |-> [lits |-> {<<"history_viewer">>}, spans |-> {}, tail |-> "wsOrEnd"]]
      [] OTHER -> [err |-> TRUE, re |-> Lits({})]

\* ------------------------------------------------------------- categorizer
RECURSIVE AppendCompiled(_, _)
\* models.go:120-135: the loop of SetCustomCategoryPatterns
AppendCompiled(acc, patterns) ==
    IF patterns = <<>> THEN acc
    ELSE LET p == Head(patterns)
             c == regexpCompile(p.Pattern)
         IN  AppendCompiled(IF ~c.err
                            THEN Append(acc, [category |-> p.Category,
                                              src |-> p.Pattern,
                                              pattern |-> c.re])
                            ELSE acc,
                            Tail(patterns))

\* the rule set is not reset before the loop
SetCustomCategoryPatterns_NoReset(old, patterns) == AppendCompiled(old, patterns)

\* one invalid pattern aborts the loop
SetCustomCategoryPatterns_StopAtInvalid(old, patterns) ==
    IF \E k \in 1..Len(patterns) : regexpCompile(patterns[k].Pattern).err
    THEN AppendCompiled(<<>>, SubSeq(patterns, 1,
            (CHOOSE k \in 1..Len(patterns) :
                /\ regexpCompile(patterns[k].Pattern).err
                /\ \A m \in 1..(k - 1) : ~regexpCompile(patterns[m].Pattern).err) - 1))
    ELSE AppendCompiled(<<>>, patterns)

\* SetCustomCategoryPatterns: the new value of customCategoryPatterns
SetCustomCategoryPatterns(old, patterns) == AppendCompiled(<<>>, patterns)

RECURSIVE CustomMatch(_, _)
\* models.go:142-146: <<label>> of the first matching user rule, <<>> if none
CustomMatch(rules, cmd) ==
    IF rules = <<>> THEN <<>>
    ELSE IF MatchString(Head(rules).pattern, cmd) THEN <<Head(rules).category>>
    ELSE CustomMatch(Tail(rules), cmd)

\* built-in rules are consulted before the user rules
CategorizeCommand_BuiltInFirst(custom, text) ==
    LET cmd == TrimSpace(text)
        u == CustomMatch(custom, cmd)
        b == {c \in DOMAIN categoryPatterns : MatchString(categoryPatterns[c], cmd)}
    IN  IF b # {} THEN b ELSE IF u # <<>> THEN {u[1]} ELSE {CategoryOther}

\* the text is matched untrimmed
CategorizeCommand_NoTrim(custom, text) ==
    LET u == CustomMatch(custom, text)
        b == {c \in DOMAIN categoryPatterns : MatchString(categoryPatterns[c], text)}
    IN  IF u # <<>> THEN {u[1]} ELSE IF b # {} THEN b ELSE {CategoryOther}

\* CategorizeCommand: the set of labels a call can return.  The built-in
\* rules live in a Go map, whose iteration order is unspecified: the call
\* returns the label of whichever matching built-in rule is visited first.
CategorizeCommand(custom, text) ==
    LET cmd == TrimSpace(text)
        u == CustomMatch(custom, cmd)
        b == {c \in DOMAIN categoryPatterns : MatchString(categoryPatterns[c], cmd)}
    IN  IF u # <<>> THEN {u[1]} ELSE IF b # {} THEN b ELSE {CategoryOther}

\* GetBaseCommand: strings.Fields(cmd)[0], or cmd itself when there is no field
GetBaseCommand(cmd) ==
    LET t == TrimSpace(cmd)
        stops == {k \in 1..Len(t) : t[k] \in WS}
        end == IF stops = {} THEN Len(t)
               ELSE (CHOOSE k \in stops : \A m \in stops : k <= m) - 1
    IN  IF t = <<>> THEN Concat(cmd) ELSE Concat(SubSeq(t, 1, end))

\* ------------------------------------------------------------------ parser
Ops == {";", "&", "|"}
Quotes == {"\"", "'"}

\* strconv.ParseInt / strconv.Atoi on the numeric words of the vocabulary
ParseInt(w) ==
    CASE w = "0" -> 0
      [] w = "5" -> 5
      [] w = "100" -> 100
      [] w = "200" -> 200
      [] OTHER -> 0

IsNumber(w) == w \in {"0", "5", "100", "200"}

\* number of leading whitespace tokens of s
LeadingWs(s) ==
    LET nonWs == {k \in 1..Len(s) : s[k] \notin WS}
    IN  IF nonWs = {} THEN Len(s)
        ELSE (CHOOSE k \in nonWs : \A m \in nonWs : k <= m) - 1

\* historyLineRegex.FindStringSubmatch: `^:\s*(\d+):(\d+);(.*)$`
\* <<>> when the line does not match, else <<line, ts, duration, command>>
historyLineRegex(line) ==
    IF Len(line) >= 1 /\ line[1] = ":"
    THEN LET k == LeadingWs(Tail(line))
         IN  IF /\ Len(line) >= k + 5
                /\ IsNumber(line[k + 2])
                /\ line[k + 3] = ":"
                /\ IsNumber(line[k + 4])
                /\ line[k + 5] = ";"
             THEN <<line, line[k + 2], line[k + 4], SubSeq(line, k + 6, Len(line))>>
             ELSE <<>>
    ELSE <<>>

historyLineMatch(line) == historyLineRegex(line) # <<>>

\* longest prefix of s holding no shell operator: [^;&|]*
UpToOperator(s) ==
    LET ops == {k \in 1..Len(s) : s[k] \in Ops}
    IN  IF ops = {} THEN s
        ELSE SubSeq(s, 1, (CHOOSE k \in ops : \A m \in ops : k <= m) - 1)

\* cdRegex.FindStringSubmatch: `^\s*cd\s+([^;&|]+)`
\* <<>> when the command does not match, else <<capture>>.  \s+ is greedy and
\* gives its last character back when nothing else is left for the group.
cdRegex(command) ==
    LET a == LeadingWs(command)
    IN  IF Len(command) >= a + 2 /\ command[a + 1] = "cd" /\ command[a + 2] \in WS
        THEN LET rest == SubSeq(command, a + 2, Len(command))
                 w == LeadingWs(rest)
                 cap == UpToOperator(SubSeq(rest, w + 1, Len(rest)))
             IN  IF cap # <<>> THEN <<cap>>
                 ELSE IF w >= 2 THEN <<<<rest[w]>>>>
                 ELSE <<>>
        ELSE <<>>

\* strings.Trim(s, "\"'")
TrimQuotes(s) ==
    LET keep == {k \in 1..Len(s) : s[k] \notin Quotes}
    IN  IF keep = {} THEN <<>>
        ELSE SubSeq(s, CHOOSE k \in keep : \A m \in keep : k <= m,
                       CHOOSE k \in keep : \A m \in keep : k >= m)

RECURSIVE SplitPath(_, _)
\* strings.Split(path, "/"): the segments of a path given as tokens; cur is
\* the segment being read
SplitPath(s, cur) ==
    IF s = <<>> THEN <<cur>>
    ELSE IF Head(s) = "/" THEN <<cur>> \o SplitPath(Tail(s), "")
    ELSE SplitPath(Tail(s), cur \o Head(s))

RECURSIVE CleanAbs(_, _)
\* filepath.Clean of an absolute path: acc is the cleaned prefix, segs the
\* segments still to read
CleanAbs(acc, segs) ==
    IF segs = <<>> THEN acc
    ELSE LET h == Head(segs)
         IN  IF h = "" \/ h = "." THEN CleanAbs(acc, Tail(segs))
             ELSE IF h = ".."
             THEN CleanAbs(IF acc = <<>> THEN acc ELSE SubSeq(acc, 1, Len(acc) - 1),
                           Tail(segs))
             ELSE CleanAbs(Append(acc, h), Tail(segs))

\* filepath.Dir of a cleaned absolute path
Dir(d) == IF d = <<>> THEN <<>> ELSE SubSeq(d, 1, Len(d) - 1)

\* Parser.resolveDirectory
resolveDirectory(home, cur, newDir0) ==
    LET newDir == TrimQuotes(newDir0)
    IN  IF newDir = <<"~">> \/ newDir = <<>> THEN home
        ELSE IF HasPrefix(newDir, <<"~", "/">>)
        THEN CleanAbs(home, SplitPath(SubSeq(newDir, 3, Len(newDir)), ""))
        ELSE IF newDir[1] = "/" THEN CleanAbs(<<>>, SplitPath(newDir, ""))
        ELSE IF newDir = <<"..">> THEN Dir(cur)
        ELSE IF newDir = <<".">> THEN cur
        ELSE CleanAbs(cur, SplitPath(newDir, ""))

\* export.go:433-437: the directory after a command has been tracked
TrackDirectory(home, cur, command) ==
    LET cdMatches == cdRegex(command)
    IN  IF cdMatches # <<>>
        THEN resolveDirectory(home, cur, TrimSpace(cdMatches[1]))
        ELSE cur

RECURSIVE ReadAhead(_, _, _, _)
\* export.go:421-431: the inner loop.  p lines are consumed, line is the
\* outer loop's variable `line`; found tells whether the loop left by break.
ReadAhead(f, p, line, command) ==
    IF p >= Len(f) THEN [pos |-> p, line |-> line, command |-> command, found |-> FALSE]
    ELSE LET nextLine == f[p + 1]
         IN  IF historyLineMatch(nextLine)
             THEN [pos |-> p + 1, line |-> nextLine, command |-> command, found |-> TRUE]
             ELSE ReadAhead(f, p + 1, line, command \o <<"\n">> \o nextLine)

\* the directory of the record is the one in effect before its own cd
ProcessRecord_StampBefore(home, cur, n, m, command, cat) ==
    [dir |-> TrackDirectory(home, cur, command),
     entry |-> [ID |-> n, Timestamp |-> ParseInt(m[2]), Duration |-> ParseInt(m[3]),
                Command |-> command, Directory |-> cur, Category |-> cat,
                BaseCommand |-> GetBaseCommand(command), SessionID |-> 0]]

\* export.go:433-450 (and 460-476): track the directory, then build the
\* HistoryEntry; dir is the new value of currentDir
ProcessRecord(home, cur, n, m, command, cat) ==
    LET d == TrackDirectory(home, cur, command)
    IN  [dir |-> d,
         entry |-> [ID |-> n, Timestamp |-> ParseInt(m[2]), Duration |-> ParseInt(m[3]),
                    Command |-> command, Directory |-> d, Category |-> cat,
                    BaseCommand |-> GetBaseCommand(command), SessionID |-> 0]]

\* ParseHistory, one iteration of the outer loop (export.go:412-480).  After
\* the inner loop `line` is either the matched line that ended it or, when
\* the scanner ran out, still the line of this iteration: it matches
\* historyLineRegex in both cases, so the block at 453-478 always runs.
ParseStep ==
    /\ ppc = "scan"
    /\ pos < Len(file)
    /\ LET line == file[pos + 1]
           matches == historyLineRegex(line)
       IN  IF matches # <<>>
           THEN LET ra == ReadAhead(file, pos + 1, line, matches[4])
                    again == historyLineRegex(ra.line)
                IN  \E c1 \in CategorizeCommand(customCategoryPatterns, ra.command) :
                    \E c2 \in CategorizeCommand(customCategoryPatterns, again[4]) :
                       LET r1 == ProcessRecord(HomeDir, currentDir, id, matches,
                                               ra.command, c1)
                           r2 == ProcessRecord(HomeDir, r1.dir, id + 1, again,
                                               again[4], c2)
                       IN  /\ entries' = entries \o <<r1.entry, r2.entry>>
                           /\ origin' = origin \o
                                <<pos + 1, IF ra.found THEN ra.pos ELSE pos + 1>>
                           /\ currentDir' = r2.dir
                           /\ id' = id + 2
                           /\ pos' = ra.pos
           ELSE /\ pos' = pos + 1
                /\ UNCHANGED <<entries, origin, currentDir, id>>
    /\ UNCHANGED <<file, HomeDir, ppc, catVars, segVars>>
    /\ UNCHANGED <<raceVars, indexVars, storeVars>>

\* ParseHistory: the scanner is exhausted, entries is returned
ParseDone ==
    /\ ppc = "scan"
    /\ pos >= Len(file)
    /\ ppc' = "done"
    /\ UNCHANGED <<file, HomeDir, pos, currentDir, id, origin, entries, catVars, segVars>>
    /\ UNCHANGED <<raceVars, indexVars, storeVars>>

\* --------------------------------------------------------------- segmenter
Minute == 60

\* isRelatedDirectory (export.go:626-647) on cleaned absolute paths:
\* dir1+"/" is a prefix of dir2 iff dir1 is not the root and its segments
\* are a proper prefix of those of dir2
isRelatedDirectory(dir1, dir2) ==
    \/ dir1 = dir2
    \/ dir1 # <<>> /\ Len(dir2) > Len(dir1) /\ SubSeq(dir2, 1, Len(dir1)) = dir1
    \/ dir2 # <<>> /\ Len(dir1) > Len(dir2) /\ SubSeq(dir1, 1, Len(dir2)) = dir2
    \/ Dir(dir1) = Dir(dir2)

\* a gap equal to the timeout already breaks
TimeoutBreak_AtLeast(cfg, prev, entry) ==
    entry.Timestamp - prev.Timestamp >= cfg.SessionTimeout

\* Heuristic 1 (export.go:539-544)
TimeoutBreak(cfg, prev, entry) ==
    entry.Timestamp - prev.Timestamp > cfg.SessionTimeout

\* Heuristic 2 (export.go:547-551)
DirectoryBreak(cfg, prev, entry) ==
    /\ cfg.SessionHeuristics.DirectoryChangeBreaksSession
    /\ ~isRelatedDirectory(prev.Directory, entry.Directory)

\* a record of the same category leaves the counter as it is
CategoryBreak_KeepCount(cfg, last, count, entry) ==
    IF entry.Category # last /\ last # ""
    THEN [count |-> count + 1,
          break |-> count + 1 >= cfg.SessionHeuristics.CategoryChangeThreshold]
    ELSE [count |-> count, break |-> FALSE]

\* Heuristic 3 (export.go:554-563): the new counter and whether it breaks
CategoryBreak(cfg, last, count, entry) ==
    IF entry.Category # last /\ last # ""
    THEN [count |-> count + 1,
          break |-> count + 1 >= cfg.SessionHeuristics.CategoryChangeThreshold]
    ELSE [count |-> 0, break |-> FALSE]

\* Heuristic 4 (export.go:566-572)
DurationBreak(cfg, cs, entry) ==
    entry.Timestamp - cs.StartTime > cfg.SessionHeuristics.MaxSessionDuration * Minute

\* export.go:537-572: shouldBreak and consecutiveCategoryChanges after the
\* four heuristics, for the record at index k > 0
Heuristics(cfg, ents, k, cs, last, count) ==
    LET entry == ents[k + 1]
        prev == ents[k]
        h == cfg.SessionHeuristics
        b1 == TimeoutBreak(cfg, prev, entry)
        b2 == b1 \/ DirectoryBreak(cfg, prev, entry)
        catOn == h.CategoryChangeThreshold > 0 /\ ~b2
        c == IF catOn THEN CategoryBreak(cfg, last, count, entry)
             ELSE [count |-> count, break |-> FALSE]
        b3 == b2 \/ c.break
        b4 == b3 \/ (h.MaxSessionDuration > 0 /\ DurationBreak(cfg, cs, entry))
    IN  [shouldBreak |-> b4, count |-> c.count]

\* a session must hold more than the minimum to be closed
MinimumMet_Strict(cfg, cs) ==
    Len(cs.Commands) > cfg.SessionHeuristics.MinCommandsPerSession

\* the minimum is not checked: every break closes the session
MinimumMet_Unchecked(cfg, cs) == TRUE

\* export.go:576 and 605
MinimumMet(cfg, cs) ==
    Len(cs.Commands) >= cfg.SessionHeuristics.MinCommandsPerSession

\* the id counts the session being created twice
NewSession_SkipId(n, start) ==
    [ID |-> n + 1, StartTime |-> start, EndTime |-> 0, Duration |-> 0,
     Commands |-> <<>>, Directories |-> {}, Categories |-> <<>>, Description |-> ""]

\* export.go:524-529 and 585-590
NewSession(n, start) ==
    [ID |-> n, StartTime |-> start, EndTime |-> 0, Duration |-> 0,
     Commands |-> <<>>, Directories |-> {}, Categories |-> <<>>, Description |-> ""]

\* export.go:578-580 and 606-608
Finalize(cs, endTime, dirs) ==
    [cs EXCEPT !.EndTime = endTime,
               !.Duration = endTime - cs.StartTime,
               !.Directories = dirs]

\* a category is counted once however many commands carry it
Incr_Once(m, c) ==
    IF c \in DOMAIN m THEN m ELSE m @@ (c :> 1)

\* currentSession.Categories[c]++
Incr(m, c) ==
    IF c \in DOMAIN m THEN [m EXCEPT ![c] = @ + 1] ELSE m @@ (c :> 1)

\* the record is put in front of the commands of the session
AddCommand_Prepend(cs, entry) ==
    [cs EXCEPT !.Commands = <<[entry EXCEPT !.SessionID = cs.ID]>> \o @,
               !.Categories = Incr(@, entry.Category)]

\* export.go:597-601
AddCommand(cs, entry) ==
    [cs EXCEPT !.Commands = Append(@, [entry EXCEPT !.SessionID = cs.ID]),
               !.Categories = Incr(@, entry.Category)]

\* ------------------------------------------------------------ descriptions
\* strings.ToLower on the base commands of the vocabulary
ToLower(w) ==
    CASE w = "Git" -> "git"
      [] w = "GIT" -> "git"
      [] OTHER -> w

\* strings.TrimPrefix(base, "./") on the base commands of the vocabulary
TrimDotSlash(w) ==
    CASE w = "./history_viewer" -> "history_viewer"
      [] w = "./" -> ""
      [] OTHER -> w

\* export.go:729-731: the cleaned base command of a record
CleanBase(cmd) == TrimDotSlash(ToLower(cmd.BaseCommand))

\* export.go:727-736: cmdCounts
cmdCounts(session) ==
    LET cmds == session.Commands
        bases == {CleanBase(cmds[k]) : k \in 1..Len(cmds)} \ {""}
    IN  [b \in bases |-> Cardinality({k \in 1..Len(cmds) : CleanBase(cmds[k]) = b})]

\* The keys a map-fed slice can hold at index 0 after the exchange sort of
\* export.go:748-754 / 831-837.  The slice is filled in map iteration order,
\* which is unspecified, and the sort exchanges only on a strictly greater
\* count: index 0 ends with whichever key of the highest count came first.
TopChoices(counts, keys) ==
    {x \in keys : \A z \in keys : counts[z] <= counts[x]}

\* the keys index 1 can hold once index 0 holds x
SecondChoices(counts, x) == TopChoices(counts, DOMAIN counts \ {x})

\* the fallback of the last line is "work" instead of the top command
extractTopActivities_WorkFallback(session) ==
    LET n == Len(session.Commands)
        c == cmdCounts(session)
    IN  IF n = 0 \/ DOMAIN c = {} THEN {"work"}
        ELSE UNION {
               IF c[x] > n \div 2 THEN {x}
               ELSE LET S == SecondChoices(c, x)
                    IN  IF S # {} /\ \E y \in S : c[y] >= n \div 5
                        THEN {x \o " " \o y : y \in S}
                        ELSE {"work"}
               : x \in TopChoices(c, DOMAIN c)}

\* extractTopActivities: the strings a call can return
extractTopActivities(session) ==
    LET n == Len(session.Commands)
        c == cmdCounts(session)
    IN  IF n = 0 \/ DOMAIN c = {} THEN {"work"}
        ELSE UNION {
               IF c[x] > n \div 2 THEN {x}
               ELSE LET S == SecondChoices(c, x)
                    IN  IF S # {} /\ \E y \in S : c[y] >= n \div 5
                        THEN {x \o " " \o y : y \in S}
                        ELSE {x}
               : x \in TopChoices(c, DOMAIN c)}

\* findMostActiveDirectory: the directories a call can return.  With several
\* directories the loop over dirCounts keeps the first one, in map iteration
\* order, that has the highest count.  A session without directories gives
\* "", which truncateDirectoryPath cleans to the relative path ".".
findMostActiveDirectory(session) ==
    LET cmds == session.Commands
        dirCounts == [d \in {cmds[k].Directory : k \in 1..Len(cmds)} |->
                         Cardinality({k \in 1..Len(cmds) : cmds[k].Directory = d})]
    IN  IF session.Directories = {} THEN {<<".">>}
        ELSE IF Cardinality(session.Directories) = 1 THEN session.Directories
        ELSE TopChoices(dirCounts, DOMAIN dirCounts)

RECURSIVE JoinPath(_)
\* filepath.Join of non-empty segments
JoinPath(parts) ==
    IF Len(parts) = 1 THEN parts[1]
    ELSE parts[1] \o "/" \o JoinPath(Tail(parts))

\* the last k elements of a sequence
LastN(parts, k) == SubSeq(parts, Len(parts) - k + 1, Len(parts))

\* the components of the home directory are not removed
truncateDirectoryPath_KeepHome(fullPath, homeDir) ==
    IF fullPath = homeDir THEN "~"
    ELSE IF fullPath = <<>> THEN "."
    ELSE LET n == Len(fullPath)
         IN  IF n = 1 THEN fullPath[1]
             ELSE IF n = 2 THEN fullPath[2]
             ELSE IF n = 3 \/ n = 4 THEN JoinPath(LastN(fullPath, 2))
             ELSE JoinPath(LastN(fullPath, 3))

\* truncateDirectoryPath on cleaned paths
truncateDirectoryPath(fullPath, homeDir) ==
    IF fullPath = homeDir THEN "~"
    ELSE IF fullPath = <<>> THEN "."
    ELSE LET underHome == /\ homeDir # <<>>
                          /\ Len(fullPath) > Len(homeDir)
                          /\ SubSeq(fullPath, 1, Len(homeDir)) = homeDir
             parts == IF underHome
                      THEN SubSeq(fullPath, Len(homeDir) + 1, Len(fullPath))
                      ELSE fullPath
             n == Len(parts)
         IN  IF n = 1 THEN parts[1]
             ELSE IF n = 2 THEN parts[2]
             ELSE IF n = 3 \/ n = 4 THEN JoinPath(LastN(parts, 2))
             ELSE JoinPath(LastN(parts, 3))

\* GetCategoryDisplayName: the human-friendly title of a category label
GetCategoryDisplayName(cat) ==
    CASE cat = "version-control" -> "Version Control"
      [] cat = "build" -> "Build"
      [] cat = "containers" -> "Containers"
      [] cat = "other" -> "Other"
      [] OTHER -> cat

\* the second category is named only from an exact fifth of the commands
categoryStr_ExactFifth(session) ==
    LET n == Len(session.Commands)
        c == session.Categories
    IN  IF DOMAIN c = {} THEN {""}
        ELSE UNION {
               LET S == SecondChoices(c, x)
               IN  IF S # {} /\ \E y \in S : 5 * c[y] >= n
                   THEN {" [" \o GetCategoryDisplayName(x) \o ", "
                              \o GetCategoryDisplayName(y) \o "]" : y \in S}
                   ELSE {" [" \o GetCategoryDisplayName(x) \o "]"}
               : x \in TopChoices(c, DOMAIN c)}

\* export.go:820-850: the values categoryStr can take
categoryStr(session) ==
    LET n == Len(session.Commands)
        c == session.Categories
    IN  IF DOMAIN c = {} THEN {""}
        ELSE UNION {
               LET S == SecondChoices(c, x)
               IN  IF S # {} /\ \E y \in S : c[y] >= n \div 5
                   THEN {" [" \o GetCategoryDisplayName(x) \o ", "
                              \o GetCategoryDisplayName(y) \o "]" : y \in S}
                   ELSE {" [" \o GetCategoryDisplayName(x) \o "]"}
               : x \in TopChoices(c, DOMAIN c)}

\* generateSessionDescription: the strings a call can return; homeDir is
\* the value of $HOME
generateSessionDescription(session, homeDir) ==
    IF Len(session.Commands) = 0 THEN {"Empty session"}
    ELSE {truncateDirectoryPath(d, homeDir) \o ": " \o a \o c :
             d \in findMostActiveDirectory(session),
             a \in extractTopActivities(session),
             c \in categoryStr(session)}

\* every break starts a new session: a run below the minimum is dropped
SessionAfterCheck_DiscardShort(cs, shouldBreak, close, n, start) ==
    IF shouldBreak THEN NewSession(n, start) ELSE cs

\* export.go:574-594: the session the record is appended to.  A new one is
\* started only inside the minimum check; otherwise currentSession is kept.
SessionAfterCheck(cs, shouldBreak, close, n, start) ==
    IF close THEN NewSession(n, start) ELSE cs

\* GroupIntoSessions up to the loop (export.go:518-533)
GroupStart ==
    /\ gpc = "idle"
    /\ IF Len(entries) = 0
       THEN /\ gpc' = "done"
            /\ sessions' = <<>>
            /\ UNCHANGED <<currentSession, dirSet>>
       ELSE /\ gpc' = "loop"
            /\ sessions' = <<>>
            /\ currentSession' = NewSession(1, entries[1].Timestamp)
            /\ dirSet' = {}
    /\ i' = 0
    /\ consecutiveCategoryChanges' = 0
    /\ lastCategory' = ""
    /\ ignored' = {}
    /\ UNCHANGED <<config, entries, catVars, parseVars>>
    /\ UNCHANGED <<raceVars, indexVars, storeVars>>

\* GroupIntoSessions, one iteration of the loop (export.go:535-602)
GroupStep ==
    /\ gpc = "loop"
    /\ i < Len(entries)
    /\ LET entry == entries[i + 1]
           h == IF i > 0
                THEN Heuristics(config, entries, i, currentSession, lastCategory,
                                consecutiveCategoryChanges)
                ELSE [shouldBreak |-> FALSE, count |-> consecutiveCategoryChanges]
           close == h.shouldBreak /\ MinimumMet(config, currentSession)
           closed == Finalize(currentSession, entries[i].Timestamp, dirSet)
           cs1 == SessionAfterCheck(currentSession, h.shouldBreak, close,
                                    Len(sessions) + (IF close THEN 2 ELSE 1),
                                    entry.Timestamp)
       IN  /\ IF close
              THEN \E d \in generateSessionDescription(closed, HomeDir) :
                      sessions' = Append(sessions, [closed EXCEPT !.Description = d])
              ELSE sessions' = sessions
           /\ currentSession' = AddCommand(cs1, entry)
           /\ dirSet' = (IF close THEN {} ELSE dirSet) \cup {entry.Directory}
           /\ consecutiveCategoryChanges' = IF close THEN 0 ELSE h.count
           /\ lastCategory' = entry.Category
           /\ ignored' = IF h.shouldBreak /\ ~close
                         THEN ignored \cup {[at |-> i + 1,
                                             held |-> {c.ID : c \in
                                                 {currentSession.Commands[k] :
                                                  k \in 1..Len(currentSession.Commands)}}]}
                         ELSE ignored
    /\ i' = i + 1
    /\ UNCHANGED <<config, gpc, entries, catVars, parseVars>>
    /\ UNCHANGED <<raceVars, indexVars, storeVars>>

\* GroupIntoSessions after the loop (export.go:604-613)
GroupFinish ==
    /\ gpc = "loop"
    /\ i >= Len(entries)
    /\ IF MinimumMet(config, currentSession)
       THEN LET closed == Finalize(currentSession, entries[Len(entries)].Timestamp, dirSet)
            IN  \E d \in generateSessionDescription(closed, HomeDir) :
                   /\ currentSession' = [closed EXCEPT !.Description = d]
                   /\ sessions' = Append(sessions, currentSession')
       ELSE UNCHANGED <<sessions, currentSession>>
    /\ gpc' = "done"
    /\ UNCHANGED <<config, i, dirSet, consecutiveCategoryChanges, lastCategory,
                   ignored, entries, catVars, parseVars>>
    /\ UNCHANGED <<raceVars, indexVars, storeVars>>

\* -------------------------------------------------- categorizer operations
\* the {Category, Pattern} pairs a caller may configure
RuleChoices ==
    {[Category |-> "my-git", Pattern |-> "^git\\s"],
     [Category |-> "scm", Pattern |-> "^git\\s"],
     [Category |-> "valid", Pattern |-> "^test\\s"],
     [Category |-> "invalid", Pattern |-> "[unclosed"]}

\* the command texts classified
CommandChoices ==
    {<<"git", " ", "status">>,
     <<" ", "git", " ", "status", "\n">>,
     <<"test", " ", "foo">>,
     <<"npm", " ", "install">>,
     <<"vim", " ", "test.go">>,
     <<"gitsomething", " ", "status">>,
     <<"git">>,
     <<"find", " ", ".", " ", "-name", " ", "x">>}

\* a direct call of SetCustomCategoryPatterns (models.go:115-136)
SetCustom ==
    /\ calls < MaxCalls
    /\ \E patterns \in SeqsUpTo(RuleChoices, MaxRules) :
          /\ customCategoryPatterns' =
                SetCustomCategoryPatterns(customCategoryPatterns, patterns)
          /\ lastPatterns' = patterns
    /\ setCalls' = setCalls + 1
    /\ calls' = calls + 1
    /\ lastOp' = "SetCustomCategoryPatterns"
    /\ UNCHANGED <<catCmd, catResult, config, parseVars, entries,
                   i, sessions, currentSession, dirSet, consecutiveCategoryChanges,
                   lastCategory, ignored, gpc>>
    /\ UNCHANGED <<raceVars, indexVars, storeVars>>

\* NewParser (export.go:374-388)
NewParser ==
    /\ calls < MaxCalls
    /\ \E patterns \in SeqsUpTo(RuleChoices, MaxRules) :
          /\ config' = [config EXCEPT !.CustomCategoryPatterns = patterns]
          /\ IF Len(patterns) > 0
             THEN /\ customCategoryPatterns' =
                        SetCustomCategoryPatterns(customCategoryPatterns, patterns)
                  /\ lastPatterns' = patterns
                  /\ setCalls' = setCalls + 1
             ELSE UNCHANGED <<customCategoryPatterns, lastPatterns, setCalls>>
    /\ calls' = calls + 1
    /\ lastOp' = "NewParser"
    /\ UNCHANGED <<catCmd, catResult, parseVars, entries,
                   i, sessions, currentSession, dirSet, consecutiveCategoryChanges,
                   lastCategory, ignored, gpc>>
    /\ UNCHANGED <<raceVars, indexVars, storeVars>>

\* a call of CategorizeCommand (models.go:138-155)
Categorize ==
    /\ calls < MaxCalls
    /\ \E cmd \in CommandChoices :
       \E r \in CategorizeCommand(customCategoryPatterns, cmd) :
          /\ catCmd' = cmd
          /\ catResult' = r
    /\ calls' = calls + 1
    /\ lastOp' = "CategorizeCommand"
    /\ UNCHANGED <<customCategoryPatterns, lastPatterns, setCalls, parseVars,
                   entries, segVars>>
    /\ ranged' = customCategoryPatterns
    /\ UNCHANGED <<setCall, indexVars, storeVars>>

\* the rules installed and replaced while commands are classified: one that
\* overrides a built-in rule, one that only a user rule matches, one invalid
RaceChoices ==
    {[Category |-> "my-git", Pattern |-> "^git\\s"],
     [Category |-> "valid", Pattern |-> "^test\\s"],
     [Category |-> "invalid", Pattern |-> "[unclosed"]}

\* SetCustomCategoryPatterns, statement by statement, for a caller that runs
\* beside CategorizeCommand: models.go holds no lock around the package
\* variable.  models.go:119, the reset
SetBegin ==
    /\ setCall.pc = "idle"
    /\ calls < MaxCalls
    /\ \E patterns \in SeqsUpTo(RaceChoices, MaxRules) :
          /\ setCall' = [pc |-> "loop", patterns |-> patterns,
                         old |-> customCategoryPatterns]
          /\ lastPatterns' = patterns
    /\ customCategoryPatterns' = <<>>
    /\ setCalls' = setCalls + 1
    /\ calls' = calls + 1
    /\ lastOp' = "SetCustomCategoryPatterns"
    /\ UNCHANGED <<catCmd, catResult, parseVars, entries, segVars,
                   ranged, indexVars, storeVars>>

\* models.go:120-135, one iteration of the loop
SetLoop ==
    /\ setCall.pc = "loop"
    /\ setCall.patterns # <<>>
    /\ customCategoryPatterns' =
          AppendCompiled(customCategoryPatterns, <<Head(setCall.patterns)>>)
    /\ setCall' = [setCall EXCEPT !.patterns = Tail(@)]
    /\ UNCHANGED <<lastPatterns, setCalls, calls, catCmd, catResult, lastOp,
                   parseVars, entries, segVars, ranged, indexVars,
                   storeVars>>

\* models.go:136, the return
SetEnd ==
    /\ setCall.pc = "loop"
    /\ setCall.patterns = <<>>
    /\ setCall' = [setCall EXCEPT !.pc = "idle"]
    /\ UNCHANGED <<catVars, parseVars, entries, segVars, ranged,
                   indexVars, storeVars>>

\* ------------------------------------------------------------ session index
\* Prune(maxAge): `cutoff := time.Now().Add(-maxAge)`, on the clock of the
\* boundaries below
Cutoff == 50

\* delete(si.boundaries, id)
Delete(boundaries, key) == [x \in DOMAIN boundaries \ {key} |-> boundaries[x]]

\* part_002:114-127: the sequence numbers sort.Slice and the loop can leave,
\* boundaries with equal start times in either order
Renumbered(boundaries) ==
    LET ids == DOMAIN boundaries
        orders == {f \in [ids -> 1..Cardinality(ids)] :
                     /\ \A a, b \in ids : a # b => f[a] # f[b]
                     /\ \A a, b \in ids :
                           boundaries[a].StartTime < boundaries[b].StartTime
                               => f[a] < f[b]}
    IN  {[x \in ids |-> [boundaries[x] EXCEPT !.SequenceNumber = f[x]]] :
            f \in orders}

\* Prune, part_002:189: si.mu.Lock()
PruneLock ==
    /\ sessionIndex.op = "Prune"
    /\ sessionIndex.pc = "idle"
    /\ sessionIndex.mu = "free"
    /\ sessionIndex' = [sessionIndex EXCEPT
                           !.mu = "locked", !.pc = "range", !.removed = 0,
                           !.unvisited = DOMAIN sessionIndex.boundaries]
    /\ UNCHANGED <<catVars, parseVars, entries, segVars, raceVars, storeVars>>

\* part_002:195-200: one iteration of the range over the map, in any order
PruneRange ==
    /\ sessionIndex.pc = "range"
    /\ \E key \in sessionIndex.unvisited :
          sessionIndex' =
              IF sessionIndex.boundaries[key].EndTime < Cutoff
              THEN [sessionIndex EXCEPT
                       !.boundaries = Delete(@, key),
                       !.removed = @ + 1,
                       !.unvisited = @ \ {key}]
              ELSE [sessionIndex EXCEPT !.unvisited = @ \ {key}]
    /\ UNCHANGED <<catVars, parseVars, entries, segVars, raceVars, storeVars>>

\* part_002:202-204: `if removed > 0 { si.ReassignSequenceNumbers() }`
PruneCheck ==
    /\ sessionIndex.pc = "range"
    /\ sessionIndex.unvisited = {}
    /\ sessionIndex' = [sessionIndex EXCEPT
                           !.pc = IF sessionIndex.removed > 0
                                  THEN "reassign" ELSE "return"]
    /\ UNCHANGED <<catVars, parseVars, entries, segVars, raceVars, storeVars>>

\* ReassignSequenceNumbers (part_002:109-128), called by Prune or directly:
\* si.mu.Lock() at line 110 waits until the mutex is free
ReassignSequenceNumbers ==
    /\ \/ sessionIndex.pc = "reassign"
       \/ sessionIndex.op = "ReassignSequenceNumbers" /\ sessionIndex.pc = "idle"
    /\ sessionIndex.mu = "free"
    /\ \E b \in Renumbered(sessionIndex.boundaries) :
          sessionIndex' = [sessionIndex EXCEPT
                              !.boundaries = b,
                              !.pc = IF sessionIndex.op = "Prune"
                                     THEN "return" ELSE "done"]
    /\ UNCHANGED <<catVars, parseVars, entries, segVars, raceVars, storeVars>>

\* part_002:206 and the deferred Unlock of line 190
PruneReturn ==
    /\ sessionIndex.pc = "return"
    /\ sessionIndex' = [sessionIndex EXCEPT
                           !.result = sessionIndex.removed,
                           !.mu = "free", !.pc = "done"]
    /\ UNCHANGED <<catVars, parseVars, entries, segVars, raceVars, storeVars>>

\* ------------------------------------------------------------ metadata store
\* sync.RWMutex: RLock returns when no writer holds the lock and none is
\* waiting for it (a waiting writer blocks new readers)
RLockFree(mu) == mu.pending = 0 /\ mu.writer = 0

\* part_000:255-268: the getter calls of MergeIntoSessions on n sessions,
\* session k holding command k
SessionCalls(n) ==
    [x \in 1..(5 * n) |->
        LET k == ((x - 1) \div 5) + 1
            j == ((x - 1) % 5) + 1
        IN  CASE j = 1 -> [get |-> "GetNotesForTarget", type |-> "session", target |-> k]
              [] j = 2 -> [get |-> "GetTagsForTarget", type |-> "session", target |-> k]
              [] j = 3 -> [get |-> "GetSessionMetadata", type |-> "session", target |-> k]
              [] j = 4 -> [get |-> "GetNotesForTarget", type |-> "command", target |-> k]
              [] OTHER -> [get |-> "GetTagsForTarget", type |-> "command", target |-> k]]

\* part_000:276-279: the getter calls of MergeIntoCommands on n commands
CommandCalls(n) ==
    [x \in 1..(2 * n) |->
        LET k == ((x - 1) \div 2) + 1
        IN  IF x % 2 = 1
            THEN [get |-> "GetNotesForTarget", type |-> "command", target |-> k]
            ELSE [get |-> "GetTagsForTarget", type |-> "command", target |-> k]]

\* part_000:123-135, 176-188, 236-247: what a getter returns
Got(store, c) ==
    LET from == CASE c.get = "GetNotesForTarget" -> store.Notes
                  [] c.get = "GetTagsForTarget" -> store.Tags
                  [] OTHER -> store.SessionMetadatas
    IN  {x \in from : x.TargetType = c.type /\ x.TargetID = c.target}

\* part_000:72-80, 148-155, 200-224: the store after the body of a writer;
\* SetSessionMetadata keeps one entry per target
Written(store, w) ==
    LET wr == store.writers[w]
        item == [ID |-> w, TargetType |-> wr.type, TargetID |-> wr.target]
    IN  CASE wr.op = "AddNote" -> [store EXCEPT !.Notes = @ \cup {item}]
          [] wr.op = "AddTag" -> [store EXCEPT !.Tags = @ \cup {item}]
          [] OTHER ->
               IF \E x \in store.SessionMetadatas :
                     x.TargetType = wr.type /\ x.TargetID = wr.target
               THEN store
               ELSE [store EXCEPT !.SessionMetadatas = @ \cup {item}]

\* MergeIntoSessions / MergeIntoCommands: m.mu.RLock() (part_000:252, 273)
MergeRLock ==
    /\ metadata.merge.pc = "idle"
    /\ RLockFree(metadata.mu)
    /\ metadata' = [metadata EXCEPT !.mu.readers = @ + 1, !.merge.pc = "loop"]
    /\ UNCHANGED <<catVars, parseVars, entries, segVars, raceVars, indexVars>>

\* the next getter is called and takes the read lock again
\* (part_000:124, 177, 237)
GetterRLock ==
    /\ metadata.merge.pc = "loop"
    /\ metadata.merge.todo # <<>>
    /\ RLockFree(metadata.mu)
    /\ metadata' = [metadata EXCEPT !.mu.readers = @ + 1, !.merge.pc = "getter"]
    /\ UNCHANGED <<catVars, parseVars, entries, segVars, raceVars, indexVars>>

\* the getter collects its result, releases its read lock and returns
GetterReturn ==
    /\ metadata.merge.pc = "getter"
    /\ metadata' = [metadata EXCEPT
                       !.mu.readers = @ - 1,
                       !.merge.out = Append(@, Got(metadata, Head(metadata.merge.todo))),
                       !.merge.todo = Tail(@),
                       !.merge.pc = "loop"]
    /\ UNCHANGED <<catVars, parseVars, entries, segVars, raceVars, indexVars>>

\* the merge returns: the deferred RUnlock (part_000:253, 274)
MergeReturn ==
    /\ metadata.merge.pc = "loop"
    /\ metadata.merge.todo = <<>>
    /\ metadata' = [metadata EXCEPT !.mu.readers = @ - 1, !.merge.pc = "done"]
    /\ UNCHANGED <<catVars, parseVars, entries, segVars, raceVars, indexVars>>

\* AddNote, AddTag or SetSessionMetadata calls m.mu.Lock() (part_000:69, 140,
\* 193): from now on the writer is waiting and new readers are held back
WriterLock ==
    /\ \E w \in DOMAIN metadata.writers :
          /\ metadata.writers[w].pc = "idle"
          /\ RLockFree(metadata.mu)
          /\ metadata' = [metadata EXCEPT !.mu.pending = w,
                                          !.writers[w].pc = "waiting"]
    /\ UNCHANGED <<catVars, parseVars, entries, segVars, raceVars, indexVars>>

\* Lock returns once the readers that held the lock have released it
WriterAcquire ==
    /\ \E w \in DOMAIN metadata.writers :
          /\ metadata.writers[w].pc = "waiting"
          /\ metadata.mu.readers = 0
          /\ metadata' = [metadata EXCEPT !.mu.pending = 0, !.mu.writer = w,
                                          !.writers[w].pc = "holding"]
    /\ UNCHANGED <<catVars, parseVars, entries, segVars, raceVars, indexVars>>

\* the body of the writer and its deferred Unlock
WriterReturn ==
    /\ \E w \in DOMAIN metadata.writers :
          /\ metadata.writers[w].pc = "holding"
          /\ metadata' = [Written(metadata, w) EXCEPT !.mu.writer = 0,
                                                      !.writers[w].pc = "done"]
    /\ UNCHANGED <<catVars, parseVars, entries, segVars, raceVars, indexVars>>

\* ------------------------------------------------------------ initial states
Home == <<"home", "u">>

DefaultHeuristics ==
    [DirectoryChangeBreaksSession |-> FALSE, CategoryChangeThreshold |-> 0,
     MinCommandsPerSession |-> 1, MaxSessionDuration |-> 0]

\* config.go: the defaults of LoadConfig (30 minutes, time-based only)
DefaultConfig ==
    [SessionTimeout |-> 30 * Minute, SessionHeuristics |-> DefaultHeuristics,
     CustomCategoryPatterns |-> <<>>]

RaceIdle ==
    /\ setCall = [pc |-> "idle", patterns |-> <<>>, old |-> <<>>]
    /\ ranged = <<>>

IndexIdle ==
    sessionIndex = [op |-> "", pc |-> "off", mu |-> "free", boundaries |-> <<>>,
                    unvisited |-> {}, removed |-> 0, result |-> 0]

StoreIdle ==
    metadata = [Notes |-> {}, Tags |-> {}, SessionMetadatas |-> {},
                mu |-> [readers |-> 0, pending |-> 0, writer |-> 0],
                merge |-> [op |-> "", pc |-> "off", todo |-> <<>>, out |-> <<>>],
                writers |-> <<>>]

CatIdle ==
    /\ RaceIdle
    /\ IndexIdle
    /\ StoreIdle
    /\ customCategoryPatterns = <<>>
    /\ lastPatterns = <<>>
    /\ setCalls = 0
    /\ calls = 0
    /\ catCmd = <<>>
    /\ catResult = ""
    /\ lastOp = ""

ParseIdle ==
    /\ file = <<>>
    /\ HomeDir = Home
    /\ pos = 0
    /\ currentDir = Home
    /\ id = 1
    /\ origin = <<>>
    /\ ppc = "idle"

SegLocals ==
    /\ i = 0
    /\ sessions = <<>>
    /\ currentSession = NewSession(1, 0)
    /\ dirSet = {}
    /\ consecutiveCategoryChanges = 0
    /\ lastCategory = ""
    /\ ignored = {}

SegIdle ==
    /\ config = DefaultConfig
    /\ SegLocals
    /\ gpc = "off"

\* ---- categorizer
InitCat ==
    /\ CatIdle
    /\ ParseIdle
    /\ entries = <<>>
    /\ SegIdle

NextCat == SetCustom \/ NewParser \/ Categorize

SpecCat == InitCat /\ [][NextCat]_vars

\* ---- the server: the rules change only through NewParser, at start and at
\* each configuration update (server.go:36, 811)
NextConfig == NewParser \/ Categorize

SpecConfig == InitCat /\ [][NextConfig]_vars

\* ---- a rule set is installed; one goroutine replaces it while another
\* classifies commands
InitRace ==
    /\ RaceIdle
    /\ IndexIdle
    /\ StoreIdle
    /\ \E patterns \in SeqsUpTo(RaceChoices, MaxRules) :
          /\ customCategoryPatterns = SetCustomCategoryPatterns(<<>>, patterns)
          /\ lastPatterns = patterns
    /\ setCalls = 0
    /\ calls = 0
    /\ catCmd = <<>>
    /\ catResult = ""
    /\ lastOp = ""
    /\ ParseIdle
    /\ entries = <<>>
    /\ SegIdle

NextRace == SetBegin \/ SetLoop \/ SetEnd \/ Categorize

SpecRace == InitRace /\ [][NextRace]_vars

\* ---- session index: boundaries as GetOrCreate made them (part_002:74-86,
\* SequenceNumber len+1 in creation order), ended before or after the cutoff
StartChoices == {10, 20}
EndChoices == {30, 60}

InitIndex ==
    /\ RaceIdle
    /\ StoreIdle
    /\ customCategoryPatterns = <<>>
    /\ lastPatterns = <<>>
    /\ setCalls = 0
    /\ calls = 0
    /\ catCmd = <<>>
    /\ catResult = ""
    /\ lastOp = ""
    /\ ParseIdle
    /\ entries = <<>>
    /\ SegIdle
    /\ \E n \in 0..MaxBoundaries :
       \E starts \in [1..n -> StartChoices] :
       \E ends \in [1..n -> EndChoices] :
       \E op \in {"Prune", "ReassignSequenceNumbers"} :
          sessionIndex =
              [op |-> op, pc |-> "idle", mu |-> "free",
               boundaries |-> [k \in 1..n |->
                                 [ID |-> k, SequenceNumber |-> k,
                                  StartTime |-> starts[k], EndTime |-> ends[k]]],
               unvisited |-> {}, removed |-> 0, result |-> 0]

NextIndex ==
    PruneLock \/ PruneRange \/ PruneCheck \/ ReassignSequenceNumbers \/ PruneReturn

SpecIndex == InitIndex /\ [][NextIndex]_vars

\* ---- metadata store: a request merges the metadata into its sessions or
\* commands while other requests add a note, a tag or session metadata
\* (server.go:203-207, 355-362, 857, 942, 998)
WriterChoices ==
    {[op |-> "AddNote", type |-> "command", target |-> 1, pc |-> "idle"],
     [op |-> "AddTag", type |-> "session", target |-> 1, pc |-> "idle"],
     [op |-> "SetSessionMetadata", type |-> "session", target |-> 1, pc |-> "idle"]}

InitStore ==
    /\ RaceIdle
    /\ IndexIdle
    /\ customCategoryPatterns = <<>>
    /\ lastPatterns = <<>>
    /\ setCalls = 0
    /\ calls = 0
    /\ catCmd = <<>>
    /\ catResult = ""
    /\ lastOp = ""
    /\ ParseIdle
    /\ entries = <<>>
    /\ SegIdle
    /\ \E n \in 1..MaxTargets :
       \E op \in {"MergeIntoSessions", "MergeIntoCommands"} :
       \E ws \in SeqsUpTo(WriterChoices, MaxWriters) :
          metadata =
              [Notes |-> {}, Tags |-> {}, SessionMetadatas |-> {},
               mu |-> [readers |-> 0, pending |-> 0, writer |-> 0],
               merge |-> [op |-> op, pc |-> "idle",
                          todo |-> IF op = "MergeIntoSessions"
                                   THEN SessionCalls(n) ELSE CommandCalls(n),
                          out |-> <<>>],
               writers |-> ws]

NextStore ==
    \/ MergeRLock \/ GetterRLock \/ GetterReturn \/ MergeReturn
    \/ WriterLock \/ WriterAcquire \/ WriterReturn

SpecStore == InitStore /\ [][NextStore]_vars

\* ---- parser
LineChoices ==
    {<<":", " ", "100", ":", "0", ";", "npm", " ", "install">>,
     <<":", " ", "200", ":", "5", ";", "cd", " ", "src">>,
     <<":", " ", "200", ":", "0", ";", "cd", " ", "..">>,
     <<":", "100", ":", "0", ";", "cd">>,
     <<":", " ", "200", ":", "0", ";", "cd", " ", "/", "tmp", " ", "&", "&", " ", "ls">>,
     <<":", " ", "200", ":", "0", ";", "cd", " ", "~">>,
     <<":", " ", "100", ":", "0", ";", " ">>,
     <<"echo", " ", "hi">>}

InitParse ==
    /\ CatIdle
    /\ file \in SeqsUpTo(LineChoices, MaxLines)
    /\ HomeDir = Home
    /\ pos = 0
    /\ currentDir = HomeDir
    /\ id = 1
    /\ origin = <<>>
    /\ ppc = "scan"
    /\ entries = <<>>
    /\ SegIdle

NextParse == ParseStep \/ ParseDone

SpecParse == InitParse /\ [][NextParse]_vars

\* ---- segmenter
CommandOf(cat) ==
    CASE cat = "version-control" -> <<"git", " ", "status">>
      [] cat = "containers" -> <<"docker", " ", "ps">>
      [] cat = "build" -> <<"make", " ", "all">>
      [] OTHER -> <<"true">>

RECURSIVE TimeAt(_, _)
\* the timestamp of record k, gaps[m] being the time between records m and
\* m+1; the log starts at second 1000
TimeAt(gaps, k) == IF k <= 1 THEN 1000 ELSE TimeAt(gaps, k - 1) + gaps[k - 1]

\* records as ParseHistory builds them, in chronological order
MakeEntries(n, gaps, cats, dirs) ==
    [k \in 1..n |->
        [ID |-> k, Timestamp |-> TimeAt(gaps, k), Duration |-> 0,
         Command |-> CommandOf(cats[k]), Directory |-> dirs[k], Category |-> cats[k],
         BaseCommand |-> GetBaseCommand(CommandOf(cats[k])), SessionID |-> 0]]

SegStart ==
    /\ CatIdle
    /\ ParseIdle
    /\ SegLocals
    /\ gpc = "idle"

GapChoices == {5 * Minute, 35 * Minute}
CategoryChoices == {"version-control", "containers"}

\* category and directory of a record: two categories in one directory, and
\* one of them also in an unrelated directory
KindChoices ==
    {[cat |-> "version-control", dir |-> <<"home", "u", "app">>],
     [cat |-> "containers", dir |-> <<"home", "u", "app">>],
     [cat |-> "containers", dir |-> <<"srv", "db">>]}

HeuristicsChoices ==
    [DirectoryChangeBreaksSession : BOOLEAN,
     CategoryChangeThreshold : {0, 2},
     MinCommandsPerSession : {0, 1, 2, 3},
     MaxSessionDuration : {0, 8}]

\* every combination of the heuristics, on records that vary in time gap,
\* category and directory
Init ==
    /\ SegStart
    /\ \E h \in HeuristicsChoices :
          config = [DefaultConfig EXCEPT !.SessionHeuristics = h]
    /\ \E n \in 0..MaxEntries :
       \E gaps \in [1..(n - 1) -> GapChoices] :
       \E kinds \in [1..n -> KindChoices] :
          entries = MakeEntries(n, gaps, [k \in 1..n |-> kinds[k].cat],
                                [k \in 1..n |-> kinds[k].dir])

Next == GroupStart \/ GroupStep \/ GroupFinish

Spec == Init /\ [][Next]_vars

TimeGapChoices == {5 * Minute, 30 * Minute, 35 * Minute}
TimeoutChoices == {5 * Minute, 30 * Minute}

\* time-based only (the defaults of LoadConfig), gaps below, at and above
\* the timeout
InitTime ==
    /\ SegStart
    /\ \E t \in TimeoutChoices : config = [DefaultConfig EXCEPT !.SessionTimeout = t]
    /\ \E n \in 0..MaxEntries :
       \E gaps \in [1..(n - 1) -> TimeGapChoices] :
       \E cats \in [1..n -> CategoryChoices] :
          entries = MakeEntries(n, gaps, cats, [k \in 1..n |-> <<"home", "u", "app">>])

SpecTime == InitTime /\ [][Next]_vars

ThresholdChoices == {1, 2, 3}
CategoryRunChoices == {"version-control", "containers", "build"}

\* only the category-change heuristic can fire
InitCategory ==
    /\ SegStart
    /\ \E t \in ThresholdChoices :
          config = [DefaultConfig EXCEPT
                       !.SessionHeuristics.CategoryChangeThreshold = t]
    /\ \E n \in 0..MaxRun :
       \E cats \in [1..n -> CategoryRunChoices] :
          entries = MakeEntries(n, [k \in 1..n |-> 5 * Minute], cats,
                                [k \in 1..n |-> <<"home", "u", "app">>])

SpecCategory == InitCategory /\ [][Next]_vars

\* the directories of the records: the root, a chain below it, siblings, and
\* an unrelated tree
DirChoices ==
    {<<>>, <<"srv">>, <<"srv", "db">>, <<"srv", "web">>, <<"srv", "db", "data">>,
     <<"home", "u", "app">>}

\* only the directory-change heuristic can fire
InitDirectory ==
    /\ SegStart
    /\ config = [DefaultConfig EXCEPT
                    !.SessionHeuristics.DirectoryChangeBreaksSession = TRUE]
    /\ \E n \in 0..MaxEntries :
       \E dirs \in [1..n -> DirChoices] :
          entries = MakeEntries(n, [k \in 1..n |-> 5 * Minute],
                                [k \in 1..n |-> "version-control"], dirs)

SpecDirectory == InitDirectory /\ [][Next]_vars

\* the commands of a described session: a capitalised base command, a
\* second base command, a local executable and a bare "./"
ActivityChoices ==
    {[cmd |-> <<"Git", " ", "log">>, cat |-> "other"],
     [cmd |-> <<"docker", " ", "ps">>, cat |-> "containers"],
     [cmd |-> <<".", "/", "history_viewer">>, cat |-> "other"],
     [cmd |-> <<".", "/">>, cat |-> "other"]}

\* one session of up to MaxRun commands: no heuristic fires
InitDescribe ==
    /\ SegStart
    /\ config = DefaultConfig
    /\ \E n \in 0..MaxRun :
       \E acts \in [1..n -> ActivityChoices] :
          entries = [k \in 1..n |->
                        [ID |-> k, Timestamp |-> 1000 + (k - 1) * 5 * Minute,
                         Duration |-> 0, Command |-> acts[k].cmd,
                         Directory |-> <<"home", "u", "app">>,
                         Category |-> acts[k].cat,
                         BaseCommand |-> GetBaseCommand(acts[k].cmd),
                         SessionID |-> 0]]

SpecDescribe == InitDescribe /\ [][Next]_vars

\* the prefixes of a sequence, the empty one included
Prefixes(path) == {SubSeq(path, 1, k) : k \in 0..Len(path)}

\* directories below the home directory and outside it, at every depth the
\* label depends on
PathChoices ==
    Prefixes(<<"home", "u", "code", "project", "src", "lib", "utils">>)
    \cup Prefixes(<<"usr", "local", "bin", "go", "pkg">>)

\* the values of $HOME
HomeChoices == {<<"home", "u">>, <<"home">>, <<>>}

\* one session in one directory: the description starts with its label
InitTruncate ==
    /\ CatIdle
    /\ file = <<>>
    /\ HomeDir \in HomeChoices
    /\ pos = 0
    /\ currentDir = HomeDir
    /\ id = 1
    /\ origin = <<>>
    /\ ppc = "idle"
    /\ SegLocals
    /\ gpc = "idle"
    /\ config = DefaultConfig
    /\ \E n \in 0..MaxEntries :
       \E d \in PathChoices :
       \E cats \in [1..n -> CategoryChoices] :
          entries = MakeEntries(n, [k \in 1..n |-> 5 * Minute], cats,
                                [k \in 1..n |-> d])

SpecTruncate == InitTruncate /\ [][Next]_vars

\* ================================================================== claims

\* ---- parser claims (SpecParse)
\* indices of the lines of f that match the record shape
MatchedLines(f) == {k \in 1..Len(f) : historyLineMatch(f[k])}

\* the k-th smallest element of a set of numbers
Nth(S, k) == CHOOSE x \in S : Cardinality({y \in S : y <= x}) = k

RECURSIVE JoinLines(_, _, _)
\* the command of line k of f followed by the lines k+1..last, each after a newline
JoinLines(f, k, last) ==
    IF last <= k THEN historyLineRegex(f[k])[4]
    ELSE JoinLines(f, k, last - 1) \o <<"\n">> \o f[last]

\* the last line of the run of non-matching lines that follows line k
ContinuationEnd(f, k) ==
    LET later == {m \in MatchedLines(f) : m > k}
    IN  IF later = {} THEN Len(f) ELSE Nth(later, 1) - 1

\* C3: when ParseHistory returns, there is exactly one record per matching
\* line, in file order, with ids 1..n, n the number of matching lines.
C3_OneRecordPerMatchingLine ==
    ppc = "done" =>
        LET M == MatchedLines(file)
        IN  /\ Len(entries) = Cardinality(M)
            /\ \A k \in 1..Len(entries) :
                  /\ entries[k].ID = k
                  /\ k <= Cardinality(M) => origin[k] = Nth(M, k)

\* C4: when ParseHistory returns, every matching line has a record whose
\* command is the line's command followed by every continuation line up to
\* the next matching line, joined by newlines.
C4_ContinuationsKept ==
    ppc = "done" =>
        \A k \in MatchedLines(file) :
            \E e \in 1..Len(entries) :
                /\ origin[e] = k
                /\ entries[e].Command = JoinLines(file, k, ContinuationEnd(file, k))

RECURSIVE DirAfter(_, _, _)
\* the current directory after the cd commands of the first k records of
\* ents have been applied in order, starting from home
DirAfter(home, ents, k) ==
    IF k = 0 THEN home
    ELSE TrackDirectory(home, DirAfter(home, ents, k - 1), ents[k].Command)

\* C5 as stated: every record, a cd record included, is stamped with the
\* directory that was current before the record's own cd was applied.
C5_StampedBeforeCd ==
    \A k \in 1..Len(entries) :
        entries[k].Directory = DirAfter(HomeDir, entries, k - 1)

\* C5 amended: every record, a cd record included, is stamped with the
\* directory that is current after the record's own cd has been applied; the
\* records after it keep that directory until the next cd.
C5_StampedAfterCd ==
    /\ \A k \in 1..Len(entries) :
          entries[k].Directory = DirAfter(HomeDir, entries, k)
    /\ ppc # "idle" => currentDir = DirAfter(HomeDir, entries, Len(entries))

\* a cd record that changed the directory, followed by a record without cd
C5_Witness ==
    /\ ppc = "done"
    /\ \E k \in 1..(Len(entries) - 1) :
          /\ cdRegex(entries[k].Command) # <<>>
          /\ entries[k].Directory # DirAfter(HomeDir, entries, k - 1)
          /\ cdRegex(entries[k + 1].Command) = <<>>
          /\ entries[k + 1].Directory = entries[k].Directory

\* ---- categorizer claims (SpecCat)
\* C6: the result of CategorizeCommand is the label of the first user rule,
\* in configured order, that matches the trimmed text; failing that, the
\* label of a built-in rule that matches it; failing that, "other".
C6_CategorizeReference ==
    lastOp = "CategorizeCommand" =>
        LET t == TrimSpace(catCmd)
            rules == customCategoryPatterns
            um == {k \in 1..Len(rules) : MatchString(rules[k].pattern, t)}
            bm == {c \in DOMAIN categoryPatterns : MatchString(categoryPatterns[c], t)}
        IN  /\ um # {} => catResult = rules[Nth(um, 1)].category
            /\ um = {} /\ bm # {} => catResult \in bm
            /\ um = {} /\ bm = {} => catResult = CategoryOther

\* two user rules and a built-in rule match; the first user rule wins
C6_Witness ==
    /\ lastOp = "CategorizeCommand"
    /\ Len(customCategoryPatterns) = 2
    /\ customCategoryPatterns[1].category = "scm"
    /\ customCategoryPatterns[2].category = "my-git"
    /\ catCmd = <<" ", "git", " ", "status", "\n">>
    /\ catResult = "scm"

\* the rules of a list that compile, in order
ValidRules(patterns) ==
    SelectSeq(patterns, LAMBDA p : ~regexpCompile(p.Pattern).err)

\* C7: the active user rules are exactly the rules of the most recent
\* SetCustomCategoryPatterns call whose pattern compiles, in their order.
C7_RulesOfLastCall ==
    LET want == ValidRules(lastPatterns)
    IN  /\ Len(customCategoryPatterns) = Len(want)
        /\ \A k \in 1..Len(want) :
              /\ customCategoryPatterns[k].category = want[k].Category
              /\ customCategoryPatterns[k].src = want[k].Pattern
        /\ setCalls > 0 /\ Len(lastPatterns) = 0 => customCategoryPatterns = <<>>

\* a second call with an invalid and a valid pattern keeps the valid one only
C7_Witness ==
    /\ setCalls = 2
    /\ lastPatterns = <<[Category |-> "invalid", Pattern |-> "[unclosed"],
                        [Category |-> "valid", Pattern |-> "^test\\s"]>>
    /\ Len(customCategoryPatterns) = 1
    /\ customCategoryPatterns[1].category = "valid"

\* ---- segmenter claims (Spec, SpecTime, SpecCategory)
\* the ids of the commands of a session
IDs(session) == {session.Commands[k].ID : k \in 1..Len(session.Commands)}

Emitted == {sessions[k] : k \in 1..Len(sessions)}

RECURSIVE EmittedIDs(_)
\* the ids of the commands of the first n emitted sessions, in output order
EmittedIDs(n) ==
    IF n = 0 THEN <<>>
    ELSE EmittedIDs(n - 1) \o
         [k \in 1..Len(sessions[n].Commands) |-> sessions[n].Commands[k].ID]

\* record k (1-based) is the first command of an emitted session
StartsSession(k) == \E s \in Emitted : s.Commands[1].ID = k

DroppedAtEnd ==
    IF MinimumMet(config, currentSession) THEN 0 ELSE Len(currentSession.Commands)

TimeOnly ==
    /\ ~config.SessionHeuristics.DirectoryChangeBreaksSession
    /\ config.SessionHeuristics.CategoryChangeThreshold = 0
    /\ config.SessionHeuristics.MaxSessionDuration = 0
    /\ config.SessionHeuristics.MinCommandsPerSession = 1

\* C8: with only the timeout active and minimum 1, record k > 1 starts a
\* session iff its gap to record k-1 is strictly greater than the timeout;
\* records at 0, 5 and 40 minutes with a 30-minute timeout give two
\* sessions, the first holding the first two records.
C8_TimeoutSplitsExactly ==
    gpc = "done" /\ TimeOnly =>
        /\ \A k \in 2..Len(entries) :
              StartsSession(k) <=>
                 entries[k].Timestamp - entries[k - 1].Timestamp > config.SessionTimeout
        /\ ( /\ Len(entries) = 3
             /\ config.SessionTimeout = 30 * Minute
             /\ entries[2].Timestamp - entries[1].Timestamp = 5 * Minute
             /\ entries[3].Timestamp - entries[1].Timestamp = 40 * Minute )
           => /\ Len(sessions) = 2
              /\ IDs(sessions[1]) = {1, 2}
              /\ IDs(sessions[2]) = {3}

\* gaps equal to and above the timeout: only the second splits
C8_Witness ==
    /\ gpc = "done"
    /\ TimeOnly
    /\ Len(entries) = 3
    /\ entries[2].Timestamp - entries[1].Timestamp = config.SessionTimeout
    /\ entries[3].Timestamp - entries[2].Timestamp > config.SessionTimeout
    /\ Len(sessions) = 2
    /\ IDs(sessions[1]) = {1, 2}

\* C9: with threshold N, when a record of one category is followed by N
\* consecutive records of one different category, the N-th of them starts a
\* session.
C9_NthOfRunStartsSession ==
    gpc = "done" =>
        LET n == config.SessionHeuristics.CategoryChangeThreshold
        IN  \A j \in 2..(Len(entries) - n + 1) :
               ( /\ entries[j].Category # entries[j - 1].Category
                 /\ \A m \in j..(j + n - 1) : entries[m].Category = entries[j].Category )
               => StartsSession(j + n - 1)

\* C10: with a positive maximum duration, no emitted session lasts longer.
C10_DurationCapped ==
    gpc = "done" /\ config.SessionHeuristics.MaxSessionDuration > 0 =>
        \A s \in Emitted :
            s.EndTime - s.StartTime <= config.SessionHeuristics.MaxSessionDuration * Minute

\* ---- directory heuristic (SpecDirectory)
\* d1 is an ancestor of d2 at any depth, the root included
IsAncestor(d1, d2) == Len(d2) > Len(d1) /\ SubSeq(d2, 1, Len(d1)) = d1

\* related as the documentation words it: equal, one below the other, or
\* the same immediate parent
Related(d1, d2) ==
    \/ d1 = d2
    \/ IsAncestor(d1, d2)
    \/ IsAncestor(d2, d1)
    \/ Dir(d1) = Dir(d2)

DirectoryOnly ==
    /\ config.SessionHeuristics.DirectoryChangeBreaksSession
    /\ config.SessionHeuristics.CategoryChangeThreshold = 0
    /\ config.SessionHeuristics.MaxSessionDuration = 0
    /\ config.SessionHeuristics.MinCommandsPerSession = 1

\* C11: with only the directory heuristic active and minimum 1, record k > 1
\* starts a session iff the directories of records k-1 and k are not
\* related: equal, or one an ancestor of the other at any depth (the root
\* included), or both with the same immediate parent; the relation the code
\* computes is symmetric.
C11_BreakIffUnrelated ==
    gpc = "done" /\ DirectoryOnly =>
        \A k \in 2..Len(entries) :
            /\ StartsSession(k) <=>
                  ~Related(entries[k - 1].Directory, entries[k].Directory)
            /\ isRelatedDirectory(entries[k - 1].Directory, entries[k].Directory)
                  = isRelatedDirectory(entries[k].Directory, entries[k - 1].Directory)

\* ---- session structure (Spec)
\* C12: every emitted session has a non-empty command list that holds at
\* least min_commands_per_session commands, whether it was closed by a break
\* or at the end of the input.
C12_SessionsMeetMinimum ==
    \A s \in Emitted :
        /\ Len(s.Commands) >= 1
        /\ Len(s.Commands) >= config.SessionHeuristics.MinCommandsPerSession

\* minimum 2: a break below the minimum was ignored, a session of exactly
\* two commands was closed by a break and another at the end of the input
C12_Witness ==
    /\ gpc = "done"
    /\ config.SessionHeuristics.MinCommandsPerSession = 2
    /\ ignored # {}
    /\ Len(sessions) = 2
    /\ Len(sessions[1].Commands) = 2
    /\ Len(sessions[2].Commands) = 2

\* the input is in chronological order
Chronological ==
    \A k \in 2..Len(entries) : entries[k - 1].Timestamp <= entries[k].Timestamp

\* C13: for chronologically ordered input the command lists of the emitted
\* sessions, concatenated in output order, are consecutive input records in
\* input order without repetition, and of two consecutive emitted sessions
\* the earlier one ends no later than the later one starts.
C13_ContiguousAndOrdered ==
    Chronological =>
        /\ LET ids == EmittedIDs(Len(sessions))
           IN  \A k \in 2..Len(ids) : ids[k] = ids[k - 1] + 1
        /\ \A k \in 2..Len(sessions) :
              sessions[k - 1].EndTime <= sessions[k].StartTime
        /\ \A s \in Emitted :
              /\ s.StartTime = s.Commands[1].Timestamp
              /\ s.EndTime = s.Commands[Len(s.Commands)].Timestamp

\* two emitted sessions of two commands each
C13_Witness ==
    /\ gpc = "done"
    /\ Chronological
    /\ Len(sessions) = 2
    /\ IDs(sessions[1]) = {1, 2}
    /\ IDs(sessions[2]) = {3, 4}
    /\ sessions[1].EndTime < sessions[2].StartTime

\* the k-th emitted session has id k
GapFree == \A k \in 1..Len(sessions) : sessions[k].ID = k

\* a break fired below the minimum, or the final run was below the minimum
ShortRunSeen == ignored # {} \/ DroppedAtEnd >= 1

\* C14 as stated: whenever a run below the minimum was discarded, the ids of
\* the emitted sessions contain a gap.
C14_DiscardLeavesGap ==
    gpc = "done" /\ ShortRunSeen /\ Len(sessions) >= 1 => ~GapFree

\* C14 amended: the k-th emitted session has id k in every case, also when a
\* break fired below the minimum or the final run was dropped.
C14_IdsGapFree == GapFree

\* two emitted sessions, a break ignored below the minimum and the final run
\* dropped
C14_Witness ==
    /\ gpc = "done"
    /\ Len(sessions) = 2
    /\ ShortRunSeen
    /\ sessions[2].ID = 2

\* C15: after GroupIntoSessions has returned, every record of the input list
\* carries the id of the session it was appended to, the records of a run
\* that is in no emitted session included, and every command inside an
\* emitted session carries that session's id.
C15_InputCarriesSessionId ==
    gpc = "done" =>
        \A s \in Emitted \cup {currentSession} :
            \A k \in 1..Len(s.Commands) :
                /\ s.Commands[k].SessionID = s.ID
                /\ entries[s.Commands[k].ID].SessionID = s.ID

\* the ignored breaks whose held commands are one run: the session in
\* progress was opened by a closing break and no break was ignored since
SingleShortRuns ==
    {g \in ignored :
        /\ \A m \in g.held : m > 1
        /\ \A g2 \in ignored : g2.at \notin g.held}

\* C16: with a minimum above 1, a run shorter than the minimum that lies
\* between two breaks is merged into the previous session: its commands are
\* the last commands of the session emitted immediately before it, and are
\* not in the following session.
C16_MergedIntoPrevious ==
    gpc = "done" /\ config.SessionHeuristics.MinCommandsPerSession > 1 =>
        \A g \in SingleShortRuns :
            \E k \in 1..Len(sessions) :
                LET ids == IDs(sessions[k])
                IN  /\ g.held \subseteq ids
                    /\ g.at \notin ids
                    /\ \E m \in ids : m \notin g.held /\ \A h \in g.held : m < h

\* ---- categorizer and base command (SpecCat, SpecParse)
\* C18: with no user rules, CategorizeCommand returns one fixed built-in
\* label per command: "npm install" is always "build" and "vim test.go" is
\* always "dev-tools".
C18_BuiltInLabelFixed ==
    lastOp = "CategorizeCommand" /\ customCategoryPatterns = <<>> =>
        /\ CategorizeCommand(<<>>, catCmd) = {catResult}
        /\ catCmd = <<"npm", " ", "install">> => catResult = "build"
        /\ catCmd = <<"vim", " ", "test.go">> => catResult = "dev-tools"

\* the first whitespace-delimited token of a text, "" when it has none
FirstField(text) ==
    LET nonWs == {k \in 1..Len(text) : text[k] \notin WS}
    IN  IF nonWs = {} THEN ""
        ELSE LET lo == CHOOSE k \in nonWs : \A m \in nonWs : k <= m
                 stops == {k \in lo..Len(text) : text[k] \in WS}
                 hi == IF stops = {} THEN Len(text)
                       ELSE (CHOOSE k \in stops : \A m \in stops : k <= m) - 1
             IN  Concat(SubSeq(text, lo, hi))

\* C19: the base command of every record is the first whitespace-delimited
\* token of its command text, and the empty string when the text is empty
\* or holds whitespace only.
C19_BaseIsFirstField ==
    \A k \in 1..Len(entries) :
        entries[k].BaseCommand = FirstField(entries[k].Command)

\* ---- descriptions (Spec, SpecDescribe)
\* C17: GroupIntoSessions is deterministic: the description of every emitted
\* session is the only string generateSessionDescription can return for it,
\* also with ties among base commands, categories or directories.
C17_DescriptionDetermined ==
    \A s \in Emitted : generateSessionDescription(s, HomeDir) = {s.Description}

\* the number of commands of a session whose cleaned base command is b
CountOf(s, b) ==
    Cardinality({k \in 1..Len(s.Commands) : CleanBase(s.Commands[k]) = b})

\* the non-empty cleaned base commands of a session
BasesOf(s) == {CleanBase(s.Commands[k]) : k \in 1..Len(s.Commands)} \ {""}

\* b is a most frequent element of B in session s
MostFrequent(s, b, B) == b \in B /\ \A z \in B : CountOf(s, z) <= CountOf(s, b)

\* the descriptions of s whose activity string is one of acts
DescriptionsWith(s, acts) ==
    {truncateDirectoryPath(d, HomeDir) \o ": " \o a \o c :
        d \in findMostActiveDirectory(s), a \in acts, c \in categoryStr(s)}

\* C20 as stated: the most frequent command alone if 2*c1 > n; otherwise the
\* two most frequent joined by a space if 5*c2 >= n; otherwise "work".
ActivitiesAsStated(s) ==
    LET n == Len(s.Commands)
        B == BasesOf(s)
        tops == {x \in B : MostFrequent(s, x, B)}
    IN  IF \E x \in tops : 2 * CountOf(s, x) > n THEN tops
        ELSE LET pairs == {p \in tops \X B :
                             /\ MostFrequent(s, p[2], B \ {p[1]})
                             /\ 5 * CountOf(s, p[2]) >= n}
             IN  IF pairs # {} THEN {p[1] \o " " \o p[2] : p \in pairs}
                 ELSE {"work"}

ActivitiesAmended(s) ==
    LET n == Len(s.Commands)
        B == BasesOf(s)
        tops == {x \in B : MostFrequent(s, x, B)}
    IN  IF B = {} THEN {"work"}
        ELSE IF \E x \in tops : 2 * CountOf(s, x) > n THEN tops
        ELSE LET pairs == {p \in tops \X B :
                             /\ MostFrequent(s, p[2], B \ {p[1]})
                             /\ CountOf(s, p[2]) >= n \div 5}
             IN  IF pairs # {} THEN {p[1] \o " " \o p[2] : p \in pairs}
                 ELSE tops

FirstSeen(s, b) ==
    CHOOSE k \in 1..Len(s.Commands) :
        /\ CleanBase(s.Commands[k]) = b
        /\ \A m \in 1..(k - 1) : CleanBase(s.Commands[m]) # b

\* x ranks before y: a higher count, or the same count and seen first
RanksBefore(s, x, y) ==
    \/ CountOf(s, x) > CountOf(s, y)
    \/ CountOf(s, x) = CountOf(s, y) /\ FirstSeen(s, x) < FirstSeen(s, y)

\* the element of B that ranks before all others
FirstRanked(s, B) == CHOOSE x \in B : \A y \in B \ {x} : RanksBefore(s, x, y)

\* C21: among base commands of the same frequency the one seen first in the
\* session ranks first, so extractTopActivities has one possible result per
\* session: the first-ranked command, alone or followed by the second-ranked.
C21_FirstSeenRanksFirst ==
    \A s \in Emitted :
        BasesOf(s) # {} =>
            LET x == FirstRanked(s, BasesOf(s))
                rest == BasesOf(s) \ {x}
                named == IF rest = {} THEN {x}
                         ELSE {x, x \o " " \o FirstRanked(s, rest)}
            IN  /\ extractTopActivities(s) \subseteq named
                /\ Cardinality(extractTopActivities(s)) = 1
                /\ s.Description \in DescriptionsWith(s, named)

\* ---- directory label (SpecTruncate)
\* the number of trailing segments kept when k segments are left
KeptOf(k) == IF k <= 2 THEN 1 ELSE IF k <= 4 THEN 2 ELSE 3

\* the label as the cutoffs give it: the segments left after the home prefix
\* is removed from a path below home, cut to their last 1, 2 or 3
LabelOf(path, home) ==
    IF path = home THEN "~"
    ELSE IF path = <<>> THEN "."
    ELSE LET left == IF IsAncestor(home, path)
                     THEN SubSeq(path, Len(home) + 1, Len(path))
                     ELSE path
         IN  JoinPath(LastN(left, KeptOf(Len(left))))

CategoryCount(s, c) ==
    Cardinality({k \in 1..Len(s.Commands) : s.Commands[k].Category = c})

\* the categories of the commands of a session
CategoriesOf(s) == {s.Commands[k].Category : k \in 1..Len(s.Commands)}

\* c is a category of the highest count among C
TopCategory(s, c, C) ==
    c \in C /\ \A z \in C : CategoryCount(s, z) <= CategoryCount(s, c)

\* the bracket texts of s, the second category being named iff there is
\* one and named(its count, the number of commands) holds
Brackets(s, named(_, _)) ==
    LET C == CategoriesOf(s)
        n == Len(s.Commands)
    IN  UNION {
          LET S == {y \in C : TopCategory(s, y, C \ {x})}
          IN  IF S # {} /\ \E y \in S : named(CategoryCount(s, y), n)
              THEN {" [" \o GetCategoryDisplayName(x) \o ", "
                         \o GetCategoryDisplayName(y) \o "]" : y \in S}
              ELSE {" [" \o GetCategoryDisplayName(x) \o "]"}
          : x \in {z \in C : TopCategory(s, z, C)}}

\* the descriptions of s built from the given bracket texts
DescriptionsOf(s, brackets) ==
    {truncateDirectoryPath(d, HomeDir) \o ": " \o a \o b :
        d \in findMostActiveDirectory(s), a \in extractTopActivities(s),
        b \in brackets}

ExactFifth(c, n) == 5 * c >= n

FloorFifth(c, n) == c >= n \div 5

C24_BareCdGoesHome ==
    \A k \in 1..Len(entries) :
        TrimSpace(entries[k].Command) \in {<<"cd">>, <<"cd", " ", "~">>} =>
            /\ entries[k].Directory = HomeDir
            /\ DirAfter(HomeDir, entries, k) = HomeDir

DerivedFrom(c) ==
    LET cats == {c[j].Category : j \in 1..Len(c)}
    IN  [StartTime |-> c[1].Timestamp,
         EndTime |-> c[Len(c)].Timestamp,
         Duration |-> c[Len(c)].Timestamp - c[1].Timestamp,
         Categories |-> [x \in cats |->
                           Cardinality({j \in 1..Len(c) : c[j].Category = x})],
         Directories |-> {c[j].Directory : j \in 1..Len(c)}]

\* C26: every emitted session has commands, its start and end time are the
\* timestamps of its first and last command, its duration is their
\* difference, its categories count its commands per category and its
\* directories are the distinct directories of its commands
C26_DerivedFieldsAgree ==
    \A k \in 1..Len(sessions) :
        LET s == sessions[k]
            d == DerivedFrom(s.Commands)
        IN  /\ Len(s.Commands) > 0
            /\ s.StartTime = d.StartTime
            /\ s.EndTime = d.EndTime
            /\ s.Duration = d.Duration
            /\ s.Categories = d.Categories
            /\ s.Directories = d.Directories

\* a second session of three commands in two categories and two directories
C26_Witness ==
    /\ Len(sessions) = 2
    /\ Len(sessions[2].Commands) = 3
    /\ Cardinality(DOMAIN sessions[2].Categories) = 2
    /\ Cardinality(sessions[2].Directories) = 2
    /\ \E x \in DOMAIN sessions[2].Categories : sessions[2].Categories[x] = 2

\* ---- category-change counter (SpecCategory)
\* the records that opened a session so far
SessionStarts ==
    {s.Commands[1].ID : s \in Emitted} \cup
    (IF Len(currentSession.Commands) > 0 THEN {currentSession.Commands[1].ID} ELSE {})

\* record j differs in category from the record before it
Differs(j) == j > 1 /\ entries[j].Category # entries[j - 1].Category

\* the number of consecutive records ending at k, after record from, that
\* differ in category from their predecessor
RunLength(k, from) ==
    LET same == {j \in (from + 1)..k : ~Differs(j)}
        after == IF same = {} THEN from
                 ELSE CHOOSE j \in same : \A x \in same : x <= j
    IN  k - after

\* the last session start before record k
StartBefore(k) ==
    LET before == {x \in SessionStarts : x < k}
    IN  CHOOSE x \in before : \A y \in before : y <= x

C28_RulesOfLastConfig ==
    lastOp = "NewParser" =>
        LET want == ValidRules(config.CustomCategoryPatterns)
        IN  /\ Len(customCategoryPatterns) = Len(want)
            /\ \A k \in 1..Len(want) :
                  /\ customCategoryPatterns[k].category = want[k].Category
                  /\ customCategoryPatterns[k].src = want[k].Pattern

\* ---- session index (SpecIndex)
\* C29: a call of Prune never stops short of its return, and when it has
\* returned the result is the number of boundaries it removed
C29_PruneTerminates ==
    sessionIndex.op = "Prune" =>
        /\ sessionIndex.pc = "done" \/ ENABLED NextIndex
        /\ sessionIndex.pc = "done" =>
              sessionIndex.result = sessionIndex.removed

\* ---- metadata store (SpecStore)
\* C30: a merge running beside writers never stops short of its return:
\* either the merge and every writer have returned, or some step can be
\* taken
C30_MergeCompletes ==
    \/ /\ metadata.merge.pc = "done"
       /\ \A w \in DOMAIN metadata.writers : metadata.writers[w].pc = "done"
    \/ ENABLED NextStore

====
